---- MODULE Spec2Model ----
(***************************************************************************)
(* Twitch chat code watcher (src/main.py): the serve loop of main(), its   *)
(* line framing, keepalive handling and payload extraction, the code       *)
(* matcher process_message, the seen registry of handle_code and the       *)
(* desktop automation focus_and_type.                                      *)
(*                                                                         *)
(* Text is a sequence of one-character strings; the transport carries a    *)
(* sequence of bytes.  An ASCII byte is written as its character; "C3" and *)
(* "A9" are the two bytes of the UTF-8 encoding of U+00E9.                 *)
(***************************************************************************)
EXTENDS Integers, Sequences, FiniteSets, TLC

VARIABLES
    NO_CONNECT,  \* os.getenv('NO_CONNECT') == '1' (main.py:225)
    AUTO_REDEEM, \* AUTO_REDEEM (main.py:29)
    test_msg,    \* test_msg of main() (main.py:226)
    sock,        \* the socket of main() (main.py:231): "none" before it is created, "open", "closed"
    pc,          \* position of main(): "main", "handshake", "recv", "lines", "exit", "raised"
    outcome,     \* how main() ended: "none" while it runs, "selftest", "disconnected" or "reset" when it returned, else the exception that escaped it
    stream,      \* every byte the peer sends on this connection, in order
    rest,        \* the bytes of stream that recv has not returned yet
    buf,         \* buf of main() (main.py:237), decoded text
    text,        \* all decoded data appended to buf so far (main.py:247)
    log,         \* ordered record of what the program did: <<"line", l>> framed, <<"send", bytes>> called, <<"payload", p>> forwarded, <<"code", c, first>> classified, <<"notify", c>> notifier run, <<"auto", c, steps>> focus_and_type called
    seen_codes,  \* seen_codes (main.py:51)
    lock,        \* lock (main.py:52): 0 when free, else the holding caller
    tpc,         \* position of each concurrent caller inside handle_code
    tcode,       \* the code each concurrent caller passes to handle_code
    tfirst,      \* the local `first` of each concurrent caller (main.py:201)
    order        \* callers in the order they were granted the lock

vars == <<NO_CONNECT, AUTO_REDEEM, test_msg, sock, pc, outcome, stream, rest, buf, text, log, seen_codes,
          lock, tpc, tcode, tfirst, order>>

serveVars == <<NO_CONNECT, AUTO_REDEEM, test_msg, sock, pc, outcome, stream, rest, buf, text>>
threadVars == <<lock, tpc, tcode, tfirst, order>>

----------------------------------------------------------------------------
(* Bounds of the model *)

\* most pieces of raw bytes in a stream
MaxPieces == 4
\* most protocol segments in a stream
MaxSegs == 2
\* number of concurrent callers of handle_code
NThreads == 3

----------------------------------------------------------------------------
(* Program constants *)

\* s.recv(4096)
RECV_SIZE == 4096
\* [A-Z0-9]{4}
GroupLen == 4
\* one leading group and (?:-[A-Z0-9]{4}){3}
NGroups == 4

CodeLen == NGroups * GroupLen + (NGroups - 1)

CR == "\r"
LF == "\n"
CRLF == <<CR, LF>>
PING == <<"P", "I", "N", "G">>
PONG == <<"P", "O", "N", "G", " ", ":", "t", "m", "i", ".", "t", "w", "i", "t", "c", "h", ".", "t", "v">>
DELIM == <<" ", ":">>
TEST_MESSAGE == <<"T", "E", "S", "T", "-", "C", "O", "D", "E", "-", "1", "2", "3", "4", "-", "A", "B", "C", "D">>
TOKEN == <<"o", "a", "u", "t", "h", ":", "k">>
NICK == <<"n">>
CHANNEL == <<"#", "c">>
\* SEND_ENTER (main.py:31), with REDEEM_SEND_ENTER=1
SEND_ENTER == TRUE

----------------------------------------------------------------------------
(* Characters *)

LowerSeq == <<"a", "b", "c", "d", "e", "f", "g", "h", "i", "j", "k", "l", "m",
              "n", "o", "p", "q", "r", "s", "t", "u", "v", "w", "x", "y", "z">>
UpperSeq == <<"A", "B", "C", "D", "E", "F", "G", "H", "I", "J", "K", "L", "M",
              "N", "O", "P", "Q", "R", "S", "T", "U", "V", "W", "X", "Y", "Z">>
Digits == {"0", "1", "2", "3", "4", "5", "6", "7", "8", "9"}
UpperLetters == {UpperSeq[i] : i \in 1..Len(UpperSeq)}
LowerLetters == {LowerSeq[i] : i \in 1..Len(LowerSeq)}

\* U+00E9 and its uppercase U+00C9, as decoded characters
E_ACUTE == "U+00E9"
E_ACUTE_UP == "U+00C9"

\* the bytes of the UTF-8 encoding of U+00E9
LEAD == "C3"
CONT == "A9"

\* str.upper() on one character
UpperChar(c) ==
    IF c \in LowerLetters
      THEN UpperSeq[CHOOSE i \in 1..Len(LowerSeq) : LowerSeq[i] = c]
      ELSE IF c = E_ACUTE THEN E_ACUTE_UP ELSE c

\* str.upper()
Upper(s) == [i \in 1..Len(s) |-> UpperChar(s[i])]

\* [A-Z0-9]
IsCodeChar(c) == c \in UpperLetters \cup Digits

\* \w of a str pattern: Unicode alphanumerics and the underscore
IsWordChar(c) ==
    c \in UpperLetters \cup LowerLetters \cup Digits \cup {"_", E_ACUTE, E_ACUTE_UP}

----------------------------------------------------------------------------
(* Sequences *)

Min(a, b) == IF a < b THEN a ELSE b

Drop(s, n) == SubSeq(s, n + 1, Len(s))

\* s.startswith(p)
StartsWith(s, p) == Len(s) >= Len(p) /\ SubSeq(s, 1, Len(p)) = p

\* s.find(p) + 1: the index of the first occurrence of p in s, 0 when there is none
Find(s, p) ==
    LET hits == {i \in 1..(Len(s) - Len(p) + 1) : SubSeq(s, i, i + Len(p) - 1) = p}
    IN IF hits = {} THEN 0 ELSE CHOOSE i \in hits : \A j \in hits : i <= j

\* the index of the last occurrence of p in s, 0 when there is none
FindLast(s, p) ==
    LET hits == {i \in 1..(Len(s) - Len(p) + 1) : SubSeq(s, i, i + Len(p) - 1) = p}
    IN IF hits = {} THEN 0 ELSE CHOOSE i \in hits : \A j \in hits : i >= j

\* p in s
Contains(s, p) == Find(s, p) # 0

\* s.split(p, 1): <<s>> when p does not occur, else <<before, after>> the first occurrence
Split1(s, p) ==
    LET i == Find(s, p)
    IN IF i = 0 THEN <<s>>
       ELSE <<SubSeq(s, 1, i - 1), Drop(s, i + Len(p) - 1)>>

Last(s) == s[Len(s)]

RECURSIVE Concat(_)
Concat(ss) == IF ss = <<>> THEN <<>> ELSE Head(ss) \o Concat(Tail(ss))

----------------------------------------------------------------------------
(* Decoding: bytes.decode('utf-8', errors='ignore') of one chunk *)

\* the byte at index i of chunk bs starts a character: an ASCII byte, or a
\* lead byte with its continuation byte next in the same chunk
StartsChar(bs, i) ==
    IF bs[i] = LEAD THEN i < Len(bs) /\ bs[i + 1] = CONT ELSE bs[i] # CONT

\* a lead byte with its continuation byte decodes to one character; a lead
\* byte without one (another byte follows, or the chunk ends) and a stray
\* continuation byte are dropped
Decode(bs) ==
    LET starts == SelectSeq([i \in 1..Len(bs) |-> i], LAMBDA i : StartsChar(bs, i))
    IN [j \in 1..Len(starts) |-> IF bs[starts[j]] = LEAD THEN E_ACUTE ELSE bs[starts[j]]]

\* (msg + '\r\n').encode('utf-8'), for the ASCII messages the program sends
Encode(msg) == msg \o CRLF

----------------------------------------------------------------------------
(* The code matcher: code_regex.finditer over the default CODE_PATTERN *)

\* the pattern matches at index i of s: \b, four groups of four [A-Z0-9]
\* separated by hyphens, \b
MatchAt(s, i) ==
    /\ i + CodeLen - 1 <= Len(s)
    /\ \A k \in 0..(CodeLen - 1) :
          IF (k + 1) % (GroupLen + 1) = 0 THEN s[i + k] = "-" ELSE IsCodeChar(s[i + k])
    /\ (i = 1 \/ ~IsWordChar(s[i - 1]))
    /\ (i + CodeLen > Len(s) \/ ~IsWordChar(s[i + CodeLen]))

\* the leftmost match at or after i alone, as re.search gives it
FindIterFirst(s, i) ==
    LET hits == {j \in i..Len(s) : MatchAt(s, j)}
    IN IF hits = {} THEN <<>>
       ELSE LET m == CHOOSE j \in hits : \A k \in hits : j <= k
            IN <<SubSeq(s, m, m + CodeLen - 1)>>

\* finditer from index i: the leftmost match at or after i, then the search
\* resumes at its end
RECURSIVE FindIter(_, _)
FindIter(s, i) ==
    LET hits == {j \in i..Len(s) : MatchAt(s, j)}
    IN IF hits = {} THEN <<>>
       ELSE LET m == CHOOSE j \in hits : \A k \in hits : j <= k
            IN <<SubSeq(s, m, m + CodeLen - 1)>> \o FindIter(s, m + CodeLen)

----------------------------------------------------------------------------
(* focus_and_type: the EA Desktop automation *)

\* what the desktop answers to one call of focus_and_type: EA_PID is set or
\* auto-detected, platform.system() is Windows, pywin32 imports, EnumWindows
\* finds a visible window of the process, the window takes the focus,
\* pywinauto imports, and which send_keys call raises (0: none of them)
Desktop(pid, windows, pywin32, window, focus, pywinauto, fails) ==
    [pid |-> pid, windows |-> windows, pywin32 |-> pywin32, window |-> window,
     focus |-> focus, pywinauto |-> pywinauto, fails |-> fails]

\* the send_keys calls of lines 194-197, in order
SendKeys(enter) ==
    IF enter THEN <<"clear", "type", "enter">> ELSE <<"clear", "type">>

\* focus_and_type(code) with every send_keys call guarded like the focus step
focus_and_type_guarded(env, enter) ==
    IF ~env.pid THEN [steps |-> <<"no pid">>, raised |-> FALSE]
    ELSE IF ~env.windows THEN [steps |-> <<"not windows">>, raised |-> FALSE]
    ELSE IF ~env.pywin32 THEN [steps |-> <<"no pywin32">>, raised |-> FALSE]
    ELSE IF ~env.window THEN [steps |-> <<"no window">>, raised |-> FALSE]
    ELSE IF ~env.focus THEN [steps |-> <<"no focus">>, raised |-> FALSE]
    ELSE IF ~env.pywinauto THEN [steps |-> <<"focus", "no pywinauto">>, raised |-> FALSE]
    ELSE IF env.fails \in 1..Len(SendKeys(enter))
      THEN [steps  |-> <<"focus">> \o SubSeq(SendKeys(enter), 1, env.fails),
            raised |-> FALSE]
    ELSE [steps |-> <<"focus">> \o SendKeys(enter) \o <<"entered">>, raised |-> FALSE]

\* focus_and_type(code), lines 141-198: the steps it takes, the last one
\* being where it stops, and whether an exception leaves it.  Lines 147-192
\* return at the first step that fails; the send_keys calls of lines 194-197
\* are in no try block.
focus_and_type(env, enter) ==
    IF ~env.pid THEN [steps |-> <<"no pid">>, raised |-> FALSE]
    ELSE IF ~env.windows THEN [steps |-> <<"not windows">>, raised |-> FALSE]
    ELSE IF ~env.pywin32 THEN [steps |-> <<"no pywin32">>, raised |-> FALSE]
    ELSE IF ~env.window THEN [steps |-> <<"no window">>, raised |-> FALSE]
    ELSE IF ~env.focus THEN [steps |-> <<"no focus">>, raised |-> FALSE]
    ELSE IF ~env.pywinauto THEN [steps |-> <<"focus", "no pywinauto">>, raised |-> FALSE]
    ELSE IF env.fails \in 1..Len(SendKeys(enter))
      THEN [steps  |-> <<"focus">> \o SubSeq(SendKeys(enter), 1, env.fails),
            raised |-> TRUE]
    ELSE [steps |-> <<"focus">> \o SendKeys(enter) \o <<"entered">>, raised |-> FALSE]

\* the desktops the program is run on here
Ready == Desktop(TRUE, TRUE, TRUE, TRUE, TRUE, TRUE, 0)
Desktops ==
    { Ready,
      [Ready EXCEPT !.pid = FALSE],
      [Ready EXCEPT !.window = FALSE],
      [Ready EXCEPT !.focus = FALSE],
      [Ready EXCEPT !.fails = 2] }

----------------------------------------------------------------------------
(* handle_code and process_message, run by one thread of control *)

\* lines 207-210: copy_to_clipboard, the CODE DETECTED line, beep
Notify(code) == <<<<"notify", code>>>>

\* lines 211-212: focus_and_type(code) when AUTO_REDEEM
AutoEnter(code, env) ==
    IF AUTO_REDEEM
      THEN [evs    |-> <<<<"auto", code, focus_and_type(env, SEND_ENTER).steps>>>>,
            raised |-> focus_and_type(env, SEND_ENTER).raised]
      ELSE [evs |-> <<>>, raised |-> FALSE]

\* handle_code without seen_codes.add(code)
handle_code_no_add(code, seen, env) ==
    LET first == code \notin seen
    IN [seen   |-> seen,
        evs    |-> <<<<"code", code, first>>>>
                     \o (IF first THEN Notify(code) \o AutoEnter(code, env).evs ELSE <<>>),
        raised |-> first /\ AutoEnter(code, env).raised]

\* handle_code with the registry replaced by the new code alone
handle_code_forget(code, seen, env) ==
    LET first == code \notin seen
    IN [seen   |-> IF first THEN {code} ELSE seen,
        evs    |-> <<<<"code", code, first>>>>
                     \o (IF first THEN Notify(code) \o AutoEnter(code, env).evs ELSE <<>>),
        raised |-> first /\ AutoEnter(code, env).raised]

\* handle_code(code) on registry seen, on desktop env: the registry after the
\* call, what the call did, <<"code", code, first>> being its classification,
\* and whether an exception left it
handle_code(code, seen, env) ==
    LET first == code \notin seen
    IN [seen   |-> IF first THEN seen \cup {code} ELSE seen,
        evs    |-> <<<<"code", code, first>>>>
                     \o (IF first THEN Notify(code) \o AutoEnter(code, env).evs ELSE <<>>),
        raised |-> first /\ AutoEnter(code, env).raised]

\* the loop of process_message: handle_code on the matches in order, ended by
\* a call that raises
RECURSIVE HandleAll(_, _, _)
HandleAll(codes, seen, env) ==
    IF codes = <<>> THEN [seen |-> seen, evs |-> <<>>, raised |-> FALSE]
    ELSE LET r  == handle_code(Head(codes), seen, env)
             rr == HandleAll(Tail(codes), r.seen, env)
         IN IF r.raised THEN r
            ELSE [seen |-> rr.seen, evs |-> r.evs \o rr.evs, raised |-> rr.raised]

\* process_message matching msg as it came, not uppercased
process_message_as_is(msg, seen, env) == HandleAll(FindIter(msg, 1), seen, env)

\* process_message(msg)
process_message(msg, seen, env) == HandleAll(FindIter(Upper(msg), 1), seen, env)

----------------------------------------------------------------------------
(* Handling one complete line: the body of the inner while loop *)

\* the payload forwarded for a content line: parts[1] of line.split(' :', 1)
Payload(line) == Split1(line, DELIM)[2]

\* the loop body with line.startswith('PING') never true
LineEffectsNoKeepalive(line, seen, env) ==
    IF line = <<>> THEN [seen |-> seen, evs |-> <<>>, sends |-> FALSE, raised |-> FALSE]
    ELSE IF Len(Split1(line, DELIM)) = 2
      THEN LET r == process_message(Payload(line), seen, env)
           IN [seen |-> r.seen, evs |-> <<<<"payload", Payload(line)>>>> \o r.evs,
               sends |-> FALSE, raised |-> r.raised]
    ELSE [seen |-> seen, evs |-> <<>>, sends |-> FALSE, raised |-> FALSE]

\* the loop body forwarding parts[-1], the whole line when ' :' does not occur
LineEffectsWholeLine(line, seen, env) ==
    IF line = <<>> THEN [seen |-> seen, evs |-> <<>>, sends |-> FALSE, raised |-> FALSE]
    ELSE IF StartsWith(line, PING)
      THEN [seen |-> seen, evs |-> <<<<"send", Encode(PONG)>>>>, sends |-> TRUE, raised |-> FALSE]
    ELSE LET p == Last(Split1(line, DELIM))
             r == process_message(p, seen, env)
         IN [seen |-> r.seen, evs |-> <<<<"payload", p>>>> \o r.evs,
             sends |-> FALSE, raised |-> r.raised]

\* the loop body answering a PING line and then handling it as a content line
LineEffectsPingForwarded(line, seen, env) ==
    IF line = <<>> THEN [seen |-> seen, evs |-> <<>>, sends |-> FALSE, raised |-> FALSE]
    ELSE LET pong == IF StartsWith(line, PING) THEN <<<<"send", Encode(PONG)>>>> ELSE <<>>
         IN IF Len(Split1(line, DELIM)) = 2
              THEN LET r == process_message(Payload(line), seen, env)
                   IN [seen |-> r.seen,
                       evs |-> pong \o <<<<"payload", Payload(line)>>>> \o r.evs,
                       sends |-> pong # <<>>, raised |-> r.raised]
              ELSE [seen |-> seen, evs |-> pong, sends |-> pong # <<>>, raised |-> FALSE]

\* what the loop body does with line, up to a send call: the events, the
\* registry, and whether a handle_code call raised
LineEffects(line, seen, env) ==
    IF line = <<>> THEN [seen |-> seen, evs |-> <<>>, sends |-> FALSE, raised |-> FALSE]
    ELSE IF StartsWith(line, PING)
      THEN [seen |-> seen, evs |-> <<<<"send", Encode(PONG)>>>>, sends |-> TRUE, raised |-> FALSE]
    ELSE IF Len(Split1(line, DELIM)) = 2
      THEN LET r == process_message(Payload(line), seen, env)
           IN [seen |-> r.seen, evs |-> <<<<"payload", Payload(line)>>>> \o r.evs,
               sends |-> FALSE, raised |-> r.raised]
    ELSE [seen |-> seen, evs |-> <<>>, sends |-> FALSE, raised |-> FALSE]

----------------------------------------------------------------------------
(* The streams a peer may send *)

Grp(a, b, c, d) == <<a, b, c, d>>
Code(g) == g \o <<"-">> \o g \o <<"-">> \o g \o <<"-">> \o g
CodeA == Code(Grp("A", "B", "1", "2"))
CodeALower == Code(Grp("a", "b", "1", "2"))
CodeB == Code(Grp("C", "D", "3", "4"))

RawPieces == {<<CR>>, <<LF>>, <<LEAD>>, <<CONT>>, <<"x">>}

Segments ==
    { PING \o CRLF,
      PING,
      CRLF,
      DELIM \o CodeA \o CRLF,
      DELIM \o CodeALower \o CRLF,
      DELIM \o CodeB \o DELIM \o CodeA \o CRLF,
      CodeA \o CRLF,
      DELIM \o CodeB }

SeqsUpTo(S, n) == UNION {[1..k -> S] : k \in 0..n}

Streams ==
    {Concat(ps) : ps \in SeqsUpTo(RawPieces, MaxPieces)}
      \cup {Concat(ps) : ps \in SeqsUpTo(Segments, MaxSegs)}

Threads == 1..NThreads
Codes == {CodeA, CodeB}

\* 'ABCD-1234-EFGH-5678'
CodeEx == <<"A", "B", "C", "D", "-", "1", "2", "3", "4", "-", "E", "F", "G", "H", "-", "5", "6", "7", "8">>
\* 'X1X1-X1X1-X1X1-X1X1'
CodeX == Code(Grp("X", "1", "X", "1"))
\* 'ABCD-1234-EFGH-5678 grab it'
GrabIt == CodeEx \o <<" ", "g", "r", "a", "b", " ", "i", "t">>
\* 'no code here'
NoCodeHere == <<"n", "o", " ", "c", "o", "d", "e", " ", "h", "e", "r", "e">>
\* 'X1X1-X1X1-X1X1-X1X1 and X1X1-X1X1-X1X1-X1X1'
TwoIdentical == CodeX \o <<" ", "a", "n", "d", " ">> \o CodeX

\* the values of TEST_MESSAGE the self-test is run with
TestMessages ==
    {TEST_MESSAGE, GrabIt, NoCodeHere, TwoIdentical, CodeALower \o <<" ">> \o CodeA}

----------------------------------------------------------------------------
(* main() *)

Init ==
    /\ NO_CONNECT \in BOOLEAN
    /\ AUTO_REDEEM \in BOOLEAN
    /\ test_msg \in (IF NO_CONNECT THEN TestMessages ELSE {TEST_MESSAGE})
    /\ sock = "none"
    /\ pc = "main"
    /\ outcome = "none"
    /\ stream \in (IF NO_CONNECT THEN {<<>>} ELSE Streams)
    /\ rest = stream
    /\ buf = <<>>
    /\ text = <<>>
    /\ log = <<>>
    /\ seen_codes = {}
    /\ lock = 0
    /\ tpc = [t \in Threads |-> "idle"]
    /\ tcode = [t \in Threads |-> <<>>]
    /\ tfirst = [t \in Threads |-> FALSE]
    /\ order = <<>>

\* lines 225-230: the self-test path
SelfTest ==
    /\ pc = "main"
    /\ NO_CONNECT
    /\ \E env \in (IF AUTO_REDEEM THEN Desktops ELSE {Ready}) :
          LET r == process_message(test_msg, seen_codes, env)
          IN /\ seen_codes' = r.seen
             /\ log' = log \o r.evs
             /\ pc' = IF r.raised THEN "raised" ELSE "exit"
             /\ outcome' = IF r.raised THEN "Exception in focus_and_type" ELSE "selftest"
    /\ sock' = sock
    /\ UNCHANGED <<NO_CONNECT, AUTO_REDEEM, test_msg, stream, rest, buf, text>>
    /\ UNCHANGED threadVars

\* the socket closed where main() breaks out of the loop, and nowhere else
WithExitOnBreak(p) == IF p = "exit" THEN "closed" ELSE "open"

\* the end of the block "with socket.socket() as s" (line 231), which main()
\* leaves by a break or by an exception: the socket is closed either way
WithExit(p) == IF p \in {"exit", "raised"} THEN "closed" ELSE "open"

\* lines 231-232: socket.socket() and s.connect, which returns or raises
Connect ==
    /\ pc = "main"
    /\ ~NO_CONNECT
    /\ \/ /\ pc' = "handshake"
          /\ outcome' = outcome
       \/ /\ pc' = "raised"
          /\ outcome' = "OSError in connect"
    /\ sock' = WithExit(pc')
    /\ UNCHANGED <<NO_CONNECT, AUTO_REDEEM, test_msg, stream, rest, buf, text, log, seen_codes>>
    /\ UNCHANGED threadVars

\* the handshake with the identity line sent before the credential line
HandshakeLinesNickFirst ==
    << <<"N", "I", "C", "K", " ">> \o NICK,
       <<"P", "A", "S", "S", " ">> \o TOKEN,
       <<"J", "O", "I", "N", " ">> \o CHANNEL >>

\* lines 233-235: the three messages passed to send
HandshakeLines ==
    << <<"P", "A", "S", "S", " ">> \o TOKEN,
       <<"N", "I", "C", "K", " ">> \o NICK,
       <<"J", "O", "I", "N", " ">> \o CHANNEL >>

\* lines 233-237: the three send calls in order, the k-th of which may raise
Handshake ==
    /\ pc = "handshake"
    /\ \E k \in 1..Len(HandshakeLines), raises \in BOOLEAN :
          /\ k < Len(HandshakeLines) => raises
          /\ log' = log \o [i \in 1..k |-> <<"send", Encode(HandshakeLines[i])>>]
          /\ pc' = IF raises THEN "raised" ELSE "recv"
          /\ outcome' = IF raises THEN "OSError in handshake send" ELSE outcome
    /\ sock' = WithExit(pc')
    /\ UNCHANGED <<NO_CONNECT, AUTO_REDEEM, test_msg, stream, rest, buf, text, seen_codes>>
    /\ UNCHANGED threadVars

\* the position after buf has changed: the inner loop runs while '\r\n' in buf
AfterBuf(b) == IF Contains(b, CRLF) THEN "lines" ELSE "recv"

\* lines 240, 244-247: recv returns the next n bytes of the stream
RecvData ==
    /\ pc = "recv"
    /\ rest # <<>>
    /\ \E n \in 1..Min(Len(rest), RECV_SIZE) :
          LET data == Decode(SubSeq(rest, 1, n))
          IN /\ rest' = Drop(rest, n)
             /\ IF data = <<>>
                  THEN /\ pc' = "exit"
                       /\ outcome' = "disconnected"
                       /\ UNCHANGED <<buf, text>>
                  ELSE /\ buf' = buf \o data
                       /\ text' = text \o data
                       /\ pc' = AfterBuf(buf')
                       /\ outcome' = outcome
    /\ sock' = WithExit(pc')
    /\ UNCHANGED <<NO_CONNECT, AUTO_REDEEM, test_msg, stream, log, seen_codes>>
    /\ UNCHANGED threadVars

\* the zero-byte read handing what is left in buf to the loop body as a last line
RecvEofFlush ==
    /\ pc = "recv"
    /\ rest = <<>>
    /\ LET r == LineEffects(buf, seen_codes, Ready)
       IN /\ log' = IF buf = <<>> THEN log ELSE log \o <<<<"line", buf>>>> \o r.evs
          /\ seen_codes' = r.seen
    /\ buf' = <<>>
    /\ pc' = "exit"
    /\ outcome' = "disconnected"
    /\ sock' = WithExit(pc')
    /\ UNCHANGED <<NO_CONNECT, AUTO_REDEEM, test_msg, stream, rest, text>>
    /\ UNCHANGED threadVars

\* the zero-byte read raising an authentication error when nothing was received before it
RecvEofAuthError ==
    /\ pc = "recv"
    /\ rest = <<>>
    /\ pc' = IF text = <<>> THEN "raised" ELSE "exit"
    /\ outcome' = IF text = <<>> THEN "AuthError" ELSE "disconnected"
    /\ sock' = WithExit(pc')
    /\ UNCHANGED <<NO_CONNECT, AUTO_REDEEM, test_msg, stream, rest, buf, text, log, seen_codes>>
    /\ UNCHANGED threadVars

\* lines 240, 244-246: the peer has closed and recv returns b''
RecvEof ==
    /\ pc = "recv"
    /\ rest = <<>>
    /\ pc' = "exit"
    /\ outcome' = "disconnected"
    /\ sock' = WithExit(pc')
    /\ UNCHANGED <<NO_CONNECT, AUTO_REDEEM, test_msg, stream, rest, buf, text, log, seen_codes>>
    /\ UNCHANGED threadVars

\* lines 241-243: recv raises ConnectionResetError
RecvReset ==
    /\ pc = "recv"
    /\ pc' = "exit"
    /\ outcome' = "reset"
    /\ sock' = WithExit(pc')
    /\ UNCHANGED <<NO_CONNECT, AUTO_REDEEM, test_msg, stream, rest, buf, text, log, seen_codes>>
    /\ UNCHANGED threadVars

\* the framing step dropping terminators that start buf while a later one remains
RECURSIVE FrameSplitSkipEmpty(_)
FrameSplitSkipEmpty(b) ==
    IF StartsWith(b, CRLF) /\ Contains(Drop(b, 2), CRLF)
      THEN FrameSplitSkipEmpty(Drop(b, 2))
      ELSE Split1(b, CRLF)

\* line 249: line, buf = buf.split('\r\n', 1), for a buf that contains '\r\n'
FrameSplit(b) == Split1(b, CRLF)

\* the inner loop as an if: one line is handled, then main() reads again
HandleLineOnce ==
    /\ pc = "lines"
    /\ \E env \in (IF AUTO_REDEEM THEN Desktops ELSE {Ready}) :
          LET parts == FrameSplit(buf)
              line  == parts[1]
              r     == LineEffects(line, seen_codes, env)
          IN /\ buf' = parts[2]
             /\ log' = log \o <<<<"line", line>>>> \o r.evs
             /\ seen_codes' = r.seen
             /\ \/ /\ ~r.raised
                   /\ pc' = "recv"
                   /\ outcome' = outcome
                \/ /\ r.sends
                   /\ pc' = "raised"
                   /\ outcome' = "ConnectionResetError in PONG send"
                \/ /\ r.raised
                   /\ pc' = "raised"
                   /\ outcome' = "Exception in focus_and_type"
    /\ sock' = WithExit(pc')
    /\ UNCHANGED <<NO_CONNECT, AUTO_REDEEM, test_msg, stream, rest, text>>
    /\ UNCHANGED threadVars

\* lines 248-258: one iteration of the inner loop.  The log records the send
\* call of line 253 when it is made; the call then returns, or raises an
\* error that nothing in main() catches, as nothing catches an exception that
\* leaves process_message.
HandleLine ==
    /\ pc = "lines"
    /\ \E env \in (IF AUTO_REDEEM THEN Desktops ELSE {Ready}) :
          LET parts == FrameSplit(buf)
              line  == parts[1]
              r     == LineEffects(line, seen_codes, env)
          IN /\ buf' = parts[2]
             /\ log' = log \o <<<<"line", line>>>> \o r.evs
             /\ seen_codes' = r.seen
             /\ \/ /\ ~r.raised
                   /\ pc' = AfterBuf(buf')
                   /\ outcome' = outcome
                \/ /\ r.sends
                   /\ pc' = "raised"
                   /\ outcome' = "ConnectionResetError in PONG send"
                \/ /\ r.raised
                   /\ pc' = "raised"
                   /\ outcome' = "Exception in focus_and_type"
    /\ sock' = WithExit(pc')
    /\ UNCHANGED <<NO_CONNECT, AUTO_REDEEM, test_msg, stream, rest, text>>
    /\ UNCHANGED threadVars

Next ==
    \/ SelfTest
    \/ Connect
    \/ Handshake
    \/ RecvData
    \/ RecvEof
    \/ RecvReset
    \/ HandleLine

Spec == Init /\ [][Next]_vars

----------------------------------------------------------------------------
(* handle_code called by concurrent callers, one bytecode-level step at a time *)

InitThreads ==
    /\ NO_CONNECT = FALSE
    /\ AUTO_REDEEM \in BOOLEAN
    /\ test_msg = TEST_MESSAGE
    /\ sock = "none"
    /\ pc = "callers"
    /\ outcome = "none"
    /\ stream = <<>>
    /\ rest = <<>>
    /\ buf = <<>>
    /\ text = <<>>
    /\ log = <<>>
    /\ seen_codes = {}
    /\ lock = 0
    /\ tpc = [t \in Threads |-> "call"]
    /\ tcode \in [Threads -> Codes]
    /\ tfirst = [t \in Threads |-> FALSE]
    /\ order = <<>>

\* line 201: first = False
Enter(t) ==
    /\ tpc[t] = "call"
    /\ tfirst' = [tfirst EXCEPT ![t] = FALSE]
    /\ tpc' = [tpc EXCEPT ![t] = "acquire"]
    /\ UNCHANGED <<lock, tcode, order, log, seen_codes>>
    /\ UNCHANGED serveVars

\* entering the critical section without waiting for the lock
AcquireNoWait(t) ==
    /\ tpc[t] = "acquire"
    /\ lock' = t
    /\ order' = Append(order, t)
    /\ tpc' = [tpc EXCEPT ![t] = "check"]
    /\ UNCHANGED <<tcode, tfirst, log, seen_codes>>
    /\ UNCHANGED serveVars

\* line 202: with lock, which blocks until the lock is free
Acquire(t) ==
    /\ tpc[t] = "acquire"
    /\ lock = 0
    /\ lock' = t
    /\ order' = Append(order, t)
    /\ tpc' = [tpc EXCEPT ![t] = "check"]
    /\ UNCHANGED <<tcode, tfirst, log, seen_codes>>
    /\ UNCHANGED serveVars

\* line 203: if code not in seen_codes
Check(t) ==
    /\ tpc[t] = "check"
    /\ tpc' = [tpc EXCEPT ![t] = IF tcode[t] \notin seen_codes THEN "add" ELSE "release"]
    /\ UNCHANGED <<lock, tcode, tfirst, order, log, seen_codes>>
    /\ UNCHANGED serveVars

\* line 204: seen_codes.add(code)
Add(t) ==
    /\ tpc[t] = "add"
    /\ seen_codes' = seen_codes \cup {tcode[t]}
    /\ tpc' = [tpc EXCEPT ![t] = "mark"]
    /\ UNCHANGED <<lock, tcode, tfirst, order, log>>
    /\ UNCHANGED serveVars

\* line 205: first = True
Mark(t) ==
    /\ tpc[t] = "mark"
    /\ tfirst' = [tfirst EXCEPT ![t] = TRUE]
    /\ tpc' = [tpc EXCEPT ![t] = "release"]
    /\ UNCHANGED <<lock, tcode, order, log, seen_codes>>
    /\ UNCHANGED serveVars

\* the with block reaching to the end of handle_code: the caller goes on to
\* the notifier with the lock held
ReleaseAfterNotify(t) ==
    /\ tpc[t] = "release"
    /\ tpc' = [tpc EXCEPT ![t] = "report"]
    /\ UNCHANGED <<lock, tcode, tfirst, order, log, seen_codes>>
    /\ UNCHANGED serveVars

\* the end of the with block: the lock is released
Release(t) ==
    /\ tpc[t] = "release"
    /\ lock' = IF lock = t THEN 0 ELSE lock
    /\ tpc' = [tpc EXCEPT ![t] = "report"]
    /\ UNCHANGED <<tcode, tfirst, order, log, seen_codes>>
    /\ UNCHANGED serveVars

\* lines 206-214: the notifier side effects for first, which an exception of
\* focus_and_type ends, the CODE REPEAT line otherwise
Report(t) ==
    /\ tpc[t] = "report"
    /\ \E env \in (IF AUTO_REDEEM THEN Desktops ELSE {Ready}) :
          LET auto == AutoEnter(tcode[t], env)
          IN /\ log' = log \o <<<<"code", tcode[t], tfirst[t]>>>>
                           \o (IF tfirst[t] THEN Notify(tcode[t]) \o auto.evs ELSE <<>>)
             /\ tpc' = [tpc EXCEPT ![t] = IF tfirst[t] /\ auto.raised THEN "raised" ELSE "done"]
    /\ UNCHANGED <<lock, tcode, tfirst, order, seen_codes>>
    /\ UNCHANGED serveVars

NextThreads ==
    \E t \in Threads :
        \/ Enter(t)
        \/ Acquire(t)
        \/ Check(t)
        \/ Add(t)
        \/ Mark(t)
        \/ Release(t)
        \/ Report(t)

SpecThreads == InitThreads /\ [][NextThreads]_vars

----------------------------------------------------------------------------
(* Reading the log *)

\* the events of one kind, in order
Sel(kind) == SelectSeq(log, LAMBDA e : e[1] = kind)

\* the lines the framing step has yielded, in order
Lines == [i \in 1..Len(Sel("line")) |-> Sel("line")[i][2]]

\* the payloads forwarded to process_message, in order
Payloads == [i \in 1..Len(Sel("payload")) |-> Sel("payload")[i][2]]

CodeEvents == Sel("code")

IsLine(i) == log[i][1] = "line"

\* the complete lines of a text: what is terminated by CR LF, in order
RECURSIVE FrameAll(_)
FrameAll(t) ==
    IF ~Contains(t, CRLF) THEN <<>>
    ELSE <<SubSeq(t, 1, Find(t, CRLF) - 1)>> \o FrameAll(Drop(t, Find(t, CRLF) + 1))

\* a CR LF terminator starts at position k of text t
IsTerminator(t, k) == k >= 1 /\ k < Len(t) /\ t[k] = CR /\ t[k + 1] = LF

\* the positions of a text where a CR LF terminator starts
Terminators(t) == {k \in 1..(Len(t) - 1) : IsTerminator(t, k)}

\* the terminators that end an empty line: at the start of the text or right
\* after another terminator
EmptyTerminators(t) ==
    {k \in 1..(Len(t) - 1) : IsTerminator(t, k) /\ (k = 1 \/ IsTerminator(t, k - 2))}

\* each line followed by its terminator
RECURSIVE JoinLines(_)
JoinLines(ls) == IF ls = <<>> THEN <<>> ELSE Head(ls) \o CRLF \o JoinLines(Tail(ls))

PongSend == <<"send", Encode(PONG)>>

\* a byte sequence that is the UTF-8 encoding of some text
WellFormed(bs) ==
    \A i \in 1..Len(bs) :
        /\ bs[i] = LEAD => (i < Len(bs) /\ bs[i + 1] = CONT)
        /\ bs[i] = CONT => (i > 1 /\ bs[i - 1] = LEAD)

----------------------------------------------------------------------------
(* Claims *)

\* C1: however the byte stream is split into chunks, the serve loop extracts
\* the lines of the whole stream: once every byte has been received and
\* handled, or the loop has reported a disconnect, the lines yielded are the
\* lines of the stream decoded as one chunk.
\* Stated for well-formed UTF-8 streams, where every lead byte has its
\* continuation byte, so that only the chunk boundaries can matter.
C1_ChunkingIndependent ==
    (WellFormed(stream) /\ ((pc = "recv" /\ rest = <<>>) \/ outcome = "disconnected"))
        => Lines = FrameAll(Decode(stream))

\* C2: for every code, at most one caller of handle_code ever holds first =
\* True; once any caller of that code has left the critical section exactly
\* one has, and it is the caller that was granted the lock first, every later
\* one observing a repeat.
C2_ExactlyOneFirst ==
    \A c \in Codes :
        LET callers == {t \in Threads : tcode[t] = c}
            firsts  == {t \in callers : tfirst[t]}
            passed  == {t \in callers : tpc[t] \in {"report", "done", "raised"}}
        IN /\ Cardinality(firsts) <= 1
           /\ passed # {} =>
                 \E t \in passed :
                     /\ firsts = {t}
                     /\ \A i, j \in 1..Len(order) :
                           (order[i] = t /\ order[j] \in callers) => i <= j

\* every caller has returned, all of them having raced on the same code
C2_Witness ==
    /\ \A t \in Threads : tpc[t] = "done" /\ tcode[t] = CodeA
    /\ Cardinality({t \in Threads : tfirst[t]}) = 1
    /\ Len(Sel("notify")) = 1

\* C3: every complete line that begins with PING is followed at once by one
\* send of PONG :tmi.twitch.tv, before the next line is handled, and no PONG
\* is sent for anything else.
C3_PingAnswered ==
    \A i \in 1..Len(log) :
        /\ (IsLine(i) /\ StartsWith(log[i][2], PING))
              => /\ i < Len(log)
                 /\ log[i + 1] = PongSend
                 /\ (i + 2 <= Len(log) => IsLine(i + 2))
        /\ log[i] = PongSend
              => (i > 1 /\ IsLine(i - 1) /\ StartsWith(log[i - 1][2], PING))

\* a PONG has just been sent while a later complete line still waits in buf
C3_Witness ==
    /\ pc = "lines"
    /\ log # <<>>
    /\ Last(log) = PongSend
    /\ Contains(buf, CRLF)

\* C4: the payload forwarded for a content line containing ' :' is the suffix
\* after the last occurrence of ' :' in the line.
C4_PayloadAfterLastDelim ==
    \A i \in 1..Len(log) :
        (IsLine(i) /\ ~StartsWith(log[i][2], PING) /\ Contains(log[i][2], DELIM))
            => /\ i < Len(log)
               /\ log[i + 1] = <<"payload", Drop(log[i][2], FindLast(log[i][2], DELIM) + 1)>>


\* C5: the notifier runs exactly once per distinct code, at the code's first
\* occurrence: a classification is first-seen exactly when no earlier
\* classification was of the same code, a first-seen classification is
\* followed at once by the notifier for that code, and the notifier never
\* runs otherwise; the self-test ends with one first-seen classification of
\* TEST-CODE-1234-ABCD and one notifier run.
C5_NotifyOncePerCode ==
    /\ \A i \in 1..Len(log) :
          /\ log[i][1] = "code" =>
                /\ log[i][3] = (\A j \in 1..(i - 1) : ~(log[j][1] = "code" /\ log[j][2] = log[i][2]))
                /\ log[i][3] => (i < Len(log) /\ log[i + 1] = <<"notify", log[i][2]>>)
          /\ log[i][1] = "notify" =>
                (i > 1 /\ log[i - 1] = <<"code", log[i][2], TRUE>>)
    /\ \A i, j \in 1..Len(log) :
          (log[i][1] = "notify" /\ log[j][1] = "notify" /\ log[i][2] = log[j][2]) => i = j
    /\ (outcome = "selftest" /\ test_msg = TEST_MESSAGE) =>
          /\ CodeEvents = << <<"code", TEST_MESSAGE, TRUE>> >>
          /\ Sel("notify") = << <<"notify", TEST_MESSAGE>> >>

\* a code has been notified once and has since occurred again
C5_Witness ==
    /\ log # <<>>
    /\ Last(log) = <<"code", CodeA, FALSE>>
    /\ Len(Sel("notify")) = 1
    /\ Len(CodeEvents) >= 2

\* C6: the framing step yields one line per CR LF terminator of the text it
\* was given, an empty one for a terminator at the start of the text or right
\* after another terminator.
C6_EmptyLinesYielded ==
    (pc = "recv" \/ (pc = "exit" /\ ~NO_CONNECT)) =>
        /\ Len(Lines) = Cardinality(Terminators(text))
        /\ Cardinality({i \in 1..Len(Lines) : Lines[i] = <<>>})
             = Cardinality(EmptyTerminators(text))

\* two terminators in a row have been framed, the second as an empty line
C6_Witness ==
    /\ pc = "recv"
    /\ Len(Lines) >= 2
    /\ Lines[1] # <<>>
    /\ Lines[2] = <<>>

\* C7: when the serve loop ends on a zero-byte read or a reset, what is left
\* in buf was never a line: the text received is the lines yielded, each with
\* its terminator, followed by buf, and every PONG and every payload in the
\* log belongs to one of those lines.
C7_FragmentNeverALine ==
    (pc = "exit" /\ outcome \in {"disconnected", "reset"}) =>
        /\ text = JoinLines(Lines) \o buf
        /\ Len(Sel("send")) = Len(HandshakeLines)
              + Cardinality({i \in 1..Len(Lines) : StartsWith(Lines[i], PING)})
        /\ Len(Payloads)
              = Cardinality({i \in 1..Len(Lines) :
                    ~StartsWith(Lines[i], PING) /\ Contains(Lines[i], DELIM)})

\* the stream ended while buf held an unterminated PING
C7_Witness ==
    /\ pc = "exit"
    /\ outcome = "disconnected"
    /\ rest = <<>>
    /\ StartsWith(buf, PING)

\* C8: handling a complete line that contains no ' :' forwards no payload and
\* leaves the seen registry unchanged.
C8_NoDelimNoPayload ==
    [][(Len(Lines') = Len(Lines) + 1 /\ ~Contains(Last(Lines'), DELIM))
          => (seen_codes' = seen_codes /\ Payloads' = Payloads /\ CodeEvents' = CodeEvents)]_vars

\* a line without ' :' that holds a code has just been handled
C8_Witness ==
    /\ log # <<>>
    /\ Last(log) = <<"line", CodeA>>

\* C9: the serve loop ends cleanly on every zero-byte read and every reset of
\* the transport: once the handshake is done no error of the transport
\* escapes main().
C9_ServeEndsCleanly ==
    (pc = "raised" /\ outcome # "Exception in focus_and_type")
        => outcome \in {"OSError in connect", "OSError in handshake send"}

\* the session ended right after the handshake: the peer sent nothing and the
\* first read returned zero bytes
ImmediateClose ==
    /\ ~NO_CONNECT
    /\ stream = <<>>
    /\ pc \in {"exit", "raised"}
    /\ outcome \notin {"reset", "OSError in connect", "OSError in handshake send"}

\* C10 as claimed: a close right after the handshake ends main() with an
\* authentication-class error.
C10_ImmediateCloseIsAuthError ==
    ImmediateClose => (pc = "raised" /\ outcome = "AuthError")

\* C10 as amended: a close right after the handshake ends main() as every
\* zero-byte read does, by a normal return after the Disconnected report, no
\* line having been handled.
C10_ImmediateCloseIsDisconnect ==
    ImmediateClose => (pc = "exit" /\ outcome = "disconnected" /\ Lines = <<>>)

C10_Witness ==
    /\ ImmediateClose
    /\ Len(Sel("send")) = Len(HandshakeLines)

\* the codes classified so far, in order
Classified == [i \in 1..Len(CodeEvents) |-> CodeEvents[i][2]]

\* the calls of focus_and_type so far, in order
AutoEvents == Sel("auto")

\* C11: a failure at any step of focus_and_type is never raised to handle_code
\* or the serve loop: no exception of focus_and_type ends the session, which
\* goes on with the lines that follow.
C11_AutomationNeverRaises ==
    ~NO_CONNECT => outcome # "Exception in focus_and_type"

\* C12: process_message with the default pattern classifies the
\* non-overlapping matches of the uppercased payload from left to right: one
\* match ABCD-1234-EFGH-5678 for 'ABCD-1234-EFGH-5678 grab it', none for
\* 'no code here', and two for 'X1X1-X1X1-X1X1-X1X1 and X1X1-X1X1-X1X1-X1X1'.
C12_ExtractExamples ==
    outcome = "selftest" =>
        /\ test_msg = GrabIt => Classified = <<CodeEx>>
        /\ test_msg = NoCodeHere => Classified = <<>>
        /\ test_msg = TwoIdentical => Classified = <<CodeX, CodeX>>

\* the self-test has run on the payload with two identical codes
C12_Witness ==
    /\ outcome = "selftest"
    /\ test_msg = TwoIdentical
    /\ Len(CodeEvents) = 2

\* the message of send event e begins with word and ends with CR LF
IsSendOf(e, word) ==
    /\ e[1] = "send"
    /\ StartsWith(e[2], word \o <<" ">>)
    /\ Len(e[2]) >= 2
    /\ SubSeq(e[2], Len(e[2]) - 1, Len(e[2])) = CRLF

\* C13: once the transport is open the first three things main() does are
\* the sends of the PASS, NICK and JOIN lines, in this order and each ended
\* by CR LF; all three are sent before the first read and before any PONG,
\* and no further handshake line is ever sent.
C13_HandshakeFirst ==
    ~NO_CONNECT =>
        /\ Len(log) >= 1 => IsSendOf(log[1], <<"P", "A", "S", "S">>)
        /\ Len(log) >= 2 => IsSendOf(log[2], <<"N", "I", "C", "K">>)
        /\ Len(log) >= 3 => IsSendOf(log[3], <<"J", "O", "I", "N">>)
        /\ (pc \in {"recv", "lines"} \/ rest # stream \/ outcome \in {"disconnected", "reset"})
              => Len(log) >= 3
        /\ \A i \in 1..Len(log) : (i > 3 /\ log[i][1] = "send") => log[i] = PongSend

\* a PING has been answered: the log holds the three handshake sends and a PONG
C13_Witness ==
    /\ Len(Sel("send")) = 4
    /\ Last(log) = PongSend

\* C14: whenever the serve loop is about to call recv, buf holds no CR LF:
\* every complete line of a chunk is extracted and handled before the next
\* read.
C14_NoLineLeftAtRead ==
    pc = "recv" => ~Contains(buf, CRLF)

\* the two lines of a stream have been handled and the loop is back at the
\* read, with nothing left in buf
C14_Witness ==
    /\ pc = "recv"
    /\ Len(Lines) = 2
    /\ Cardinality(Terminators(text)) = 2
    /\ buf = <<>>

\* the classifications a step adds to the log
NewCodeEvents == SubSeq(CodeEvents', Len(CodeEvents) + 1, Len(CodeEvents'))

\* C15: the seen registry only grows: no step removes a code, the codes a
\* step adds are exactly the codes it classifies as first-seen, and a step
\* whose classifications are all repeats leaves the registry unchanged.
C15_RegistryOnlyGrows ==
    [][/\ seen_codes \subseteq seen_codes'
       /\ seen_codes' \ seen_codes =
             {NewCodeEvents[i][2] : i \in {j \in 1..Len(NewCodeEvents) : NewCodeEvents[j][3]}}
       /\ \A i \in 1..Len(NewCodeEvents) :
             ~NewCodeEvents[i][3] => NewCodeEvents[i][2] \in seen_codes']_vars

\* both codes are in the registry and the last call classified a repeat
C15_Witness ==
    /\ seen_codes = Codes
    /\ log # <<>>
    /\ Last(log) = <<"code", CodeA, FALSE>>

\* C16: the socket main() opened is closed on every way out of main(): the
\* zero-byte read, the reset, an error in connect or in the handshake, and an
\* exception raised while a line is handled; it is open while main() runs.
C16_SocketReleased ==
    /\ (~NO_CONNECT /\ pc \in {"exit", "raised"}) => sock = "closed"
    /\ sock = "open" <=> pc \in {"handshake", "recv", "lines"}
    /\ NO_CONNECT => sock = "none"

\* an exception raised while a line was handled has ended main(), and the
\* socket is closed
C16_Witness ==
    /\ pc = "raised"
    /\ outcome = "ConnectionResetError in PONG send"
    /\ Lines # <<>>
    /\ sock = "closed"

\* the index of the payload event that log entry k belongs to, 0 if none
PayloadOf(k) ==
    LET before == {j \in 1..(k - 1) : log[j][1] = "payload"}
    IN IF before = {} THEN 0 ELSE CHOOSE j \in before : \A m \in before : m <= j

\* C17: codes are uppercased before they are classified: every classified
\* code and every code in the registry equals its own uppercase form, and of
\* two payloads that differ only in letter case the later one yields repeats
\* only; a payload that spells a code in any letter case is classified.
C17_UppercaseBeforeClassify ==
    /\ \A c \in seen_codes : c = Upper(c)
    /\ \A k \in 1..Len(log) :
          log[k][1] = "code" =>
              /\ log[k][2] = Upper(log[k][2])
              /\ (\E i \in 1..(PayloadOf(k) - 1) :
                      /\ log[i][1] = "payload"
                      /\ Upper(log[i][2]) = Upper(log[PayloadOf(k)][2]))
                   => ~log[k][3]
    /\ \A i \in 1..Len(log) :
          (log[i][1] = "payload" /\ Upper(log[i][2]) = CodeA) => (i < Len(log) /\ log[i + 1][1] = "code")

\* the lowercase spelling of a code was classified first-seen, the uppercase
\* spelling after it a repeat
C17_Witness ==
    /\ Payloads = <<CodeALower, CodeA>>
    /\ CodeEvents = << <<"code", CodeA, TRUE>>, <<"code", CodeA, FALSE>> >>
    /\ seen_codes = {CodeA}

\* C18: a line that begins with PING is never forwarded to the matcher, even
\* when it holds ' :' and text matching the pattern: the step that handles it
\* forwards no payload, classifies nothing, runs no notifier and leaves the
\* registry unchanged.
C18_PingNeverMatched ==
    [][(Len(Lines') = Len(Lines) + 1 /\ StartsWith(Last(Lines'), PING))
          => /\ seen_codes' = seen_codes
             /\ Payloads' = Payloads
             /\ CodeEvents' = CodeEvents
             /\ Sel("notify")' = Sel("notify")
             /\ AutoEvents' = AutoEvents]_vars

\* the line 'PING :AB12-AB12-AB12-AB12' has just been answered, the registry
\* being empty
C18_Witness ==
    /\ Len(log) >= 2
    /\ Last(log) = PongSend
    /\ log[Len(log) - 1] = <<"line", PING \o DELIM \o CodeA>>
    /\ seen_codes = {}

\* the positions of handle_code inside the with block
Critical == {"check", "add", "mark", "release"}

\* C19: the lock is held only for the check and insert: a caller holds it
\* exactly while it is inside the with block, never while it runs the
\* notifier or after the notifier failed, so that a caller waiting for the
\* lock can take it as soon as no caller is inside the with block, whatever
\* the others are doing in their notifiers.
C19_LockOnlyAroundCheckInsert ==
    /\ \A t \in Threads : lock = t <=> tpc[t] \in Critical
    /\ \A t \in Threads : tpc[t] \in {"report", "done", "raised"} => lock # t
    /\ \A u \in Threads :
          (tpc[u] = "acquire" /\ \A t \in Threads : tpc[t] \notin Critical)
              => ENABLED Acquire(u)

\* focus_and_type has raised for one code, another caller sits in its
\* notifier, and a third caller can take the lock
C19_Witness ==
    \E t, u, v \in Threads :
        /\ tcode[t] # tcode[u]
        /\ tpc[t] = "raised"
        /\ tpc[u] = "report" /\ tfirst[u]
        /\ tpc[v] = "acquire"
        /\ ENABLED Acquire(v)

====
